---- MODULE Spec2Model ----
(***************************************************************************)
(* Model of the ETL pipeline of src/main.py: extract_data, transform_data  *)
(* and load_data of DataProcessor, driven by main().  Data frames are      *)
(* sequences of records, strings that the code formats or uses as file     *)
(* names are sequences of one-character strings.                           *)
(***************************************************************************)
EXTENDS Integers, Sequences, FiniteSets, TLC

VARIABLES
    srcMessages,            \* MySQL table WAMessages
    srcClient,              \* MySQL table Client
    srcUser,                \* MySQL table User
    now,                    \* wall clock date read by datetime.now()
    pc,                     \* position of main()
    runs,                   \* number of invocations of main() so far
    df_messages,            \* frames returned by extract_data
    df_client,
    df_user,
    df_messages_per_month,  \* aggregate frame of transform_data
    transformed_data,       \* frame returned by transform_data
    df,                     \* frame prepared in load_data
    previous_month,         \* text of the target month
    final_result,           \* export frame
    todo,                   \* client names the csv loop still has to write
    warehouse,              \* PostgreSQL table WAMessagesSummary
    dirs,                   \* directories of the file system
    files,                  \* files of the file system: path -> rows
    exitCode,               \* exit status of the process (-1 while running)
    failedStage,            \* stage whose exception left main()
    log,                    \* sink calls attempted by the current run
    sinks0,                 \* sinks when the current run started
    sinks1                  \* sinks when the first run finished

vars == <<srcMessages, srcClient, srcUser, now, pc, runs, df_messages,
          df_client, df_user, df_messages_per_month,
          transformed_data, df, previous_month, final_result, todo, warehouse,
          dirs, files, exitCode, failedStage, log, sinks0, sinks1>>

-----------------------------------------------------------------------------
(* Bounds of the model *)

MaxMsgs == 2
MaxRefs == 2
MinYear == 2023
MaxYear == 2024
MaxRuns == 2

-----------------------------------------------------------------------------
(* Values *)

\* a missing id (NaN / None of pandas); the ids of the tables are positive
NullId == 0 - 1
\* a missing string (NaN of pandas); the characters of a string are
\* one-character strings, so no string equals it
NullStr == <<"NaN">>
\* the frame variables before the code assigns them
NoFrame == <<>>
NoText == <<>>

Str_csv == <<".", "c", "s", "v">>
Str_output == <<"o", "u", "t", "p", "u", "t">>

\* code point order of the characters the model uses
Alphabet == <<"-", ".", "/", "0", "1", "2", "3", "4", "5", "6", "7", "8", "9",
              "a", "b", "c", "o", "p", "s", "t", "u", "v">>

CharOrd(c) == CHOOSE i \in 1..Len(Alphabet) : Alphabet[i] = c

RECURSIVE StrLess(_, _)
StrLess(s, t) ==
    IF t = <<>> THEN FALSE
    ELSE IF s = <<>> THEN TRUE
    ELSE IF Head(s) = Head(t) THEN StrLess(Tail(s), Tail(t))
    ELSE CharOrd(Head(s)) < CharOrd(Head(t))

-----------------------------------------------------------------------------
(* Calendar *)

IsLeap(y) == (y % 4 = 0 /\ y % 100 # 0) \/ y % 400 = 0

DaysInMonth(y, m) ==
    IF m = 2 THEN (IF IsLeap(y) THEN 29 ELSE 28)
    ELSE IF m \in {4, 6, 9, 11} THEN 30 ELSE 31

\* pd.to_datetime accepts the value
IsParseable(c) ==
    /\ c.month \in 1..12
    /\ c.day \in 1..DaysInMonth(c.year, c.month)

\* date - timedelta(days=1)
MinusOneDay(d) ==
    IF d.day > 1 THEN [year |-> d.year, month |-> d.month, day |-> d.day - 1]
    ELSE IF d.month > 1
         THEN [year |-> d.year, month |-> d.month - 1,
               day |-> DaysInMonth(d.year, d.month - 1)]
         ELSE [year |-> d.year - 1, month |-> 12, day |-> 31]

\* the day of the run date is kept
ReplaceDay1_kept(d) == d

\* date.replace(day=1)
ReplaceDay1(d) == [year |-> d.year, month |-> d.month, day |-> 1]

Digit(n) == Alphabet[4 + n]

\* "%Y-%m" of strftime and str() of a monthly Period, years 1000..9999
FormatYM(y, m) ==
    <<Digit(y \div 1000), Digit((y \div 100) % 10), Digit((y \div 10) % 10),
      Digit(y % 10), "-", Digit(m \div 10), Digit(m % 10)>>

Strftime(d) == FormatYM(d.year, d.month)

\* created_at.dt.to_period("M")
ToPeriod(c) == [year |-> c.year, month |-> c.month]

PeriodStr(p) == FormatYM(p.year, p.month)

PreviousMonth(d) == Strftime(MinusOneDay(ReplaceDay1(d)))

-----------------------------------------------------------------------------
(* transform_data *)

QualifyingStatus == {"delivered", "read"}

\* df_messages.assign(created_at=..., month=...)
AssignMonth(msgs) ==
    [i \in DOMAIN msgs |->
        [client_id |-> msgs[i].client_id, user_id |-> msgs[i].user_id,
         created_at |-> msgs[i].created_at, status |-> msgs[i].status,
         month |-> ToPeriod(msgs[i].created_at)]]

\* df_messages[df_messages["status"].isin(["delivered", "read"])]
IsQualifying(m) == m.status \in QualifyingStatus

GroupKey(r) == <<r.client_id, r.user_id, r.month>>

\* groupby(..., dropna=True), the default: a key with a missing part forms
\* no group
HasNullKey(r) == r.client_id = NullId \/ r.user_id = NullId

GroupKeys(rows) ==
    {GroupKey(rows[i]) : i \in {j \in DOMAIN rows : ~HasNullKey(rows[j])}}

MonthOrd(p) == p.year * 12 + p.month

\* groupby(..., sort=True), the default: the order of the group keys
KeyLess(a, b) ==
    \/ a[1] < b[1]
    \/ a[1] = b[1] /\ a[2] < b[2]
    \/ a[1] = b[1] /\ a[2] = b[2] /\ MonthOrd(a[3]) < MonthOrd(b[3])

RECURSIVE SortKeys(_)
SortKeys(S) ==
    IF S = {} THEN <<>>
    ELSE LET least == CHOOSE k \in S : \A o \in S \ {k} : KeyLess(k, o)
         IN  <<least>> \o SortKeys(S \ {least})

GroupSize(rows, k) == Cardinality({i \in DOMAIN rows : GroupKey(rows[i]) = k})

\* .groupby(["client_id", "user_id", "month"], as_index=False).size()
\*  .rename(columns={"size": "message_count"})
MessagesPerMonth(msgs) ==
    LET rows == SelectSeq(AssignMonth(msgs), IsQualifying)
        keys == SortKeys(GroupKeys(rows))
    IN  [i \in DOMAIN keys |->
            [client_id |-> keys[i][1], user_id |-> keys[i][2],
             month |-> keys[i][3], message_count |-> GroupSize(rows, keys[i])]]

\* the rows of right whose id equals key, in the order of right
MatchingRows(right, key) == SelectSeq(right, LAMBDA c : c.id = key)

\* one row of the first merge: the left row with columns id and name added
JoinClientRow(r, c) ==
    [client_id |-> r.client_id, user_id |-> r.user_id, month |-> r.month,
     message_count |-> r.message_count, id |-> c.id, name |-> c.name]

\* the name of the user replaces the name of the client
JoinUserRow_overwrite(r, u) ==
    [client_id |-> r.client_id, user_id |-> r.user_id, month |-> r.month,
     message_count |-> r.message_count, id |-> r.id, name |-> u.name,
     id_user |-> u.id, name_user |-> u.name]

\* one row of the second merge, suffixes=("", "_user"): the colliding
\* columns id and name of the right frame become id_user and name_user
JoinUserRow(r, u) ==
    [client_id |-> r.client_id, user_id |-> r.user_id, month |-> r.month,
     message_count |-> r.message_count, id |-> r.id, name |-> r.name,
     id_user |-> u.id, name_user |-> u.name]

\* how="inner": a left row without a match yields no row
NoMatch_inner == <<>>

NoMatch == <<[id |-> NullId, name |-> NullStr]>>

\* merge(df_client[["id", "name"]], left_on="client_id", right_on="id",
\*       how="left")
RECURSIVE MergeClient(_, _)
MergeClient(left, right) ==
    IF left = <<>> THEN <<>>
    ELSE LET r == Head(left)
             found == MatchingRows(right, r.client_id)
             ms == IF found = <<>> THEN NoMatch ELSE found
         IN  [i \in DOMAIN ms |-> JoinClientRow(r, ms[i])]
             \o MergeClient(Tail(left), right)

\* merge(df_user[["id", "name"]], left_on="user_id", right_on="id",
\*       how="left", suffixes=("", "_user"))
RECURSIVE MergeUser(_, _)
MergeUser(left, right) ==
    IF left = <<>> THEN <<>>
    ELSE LET r == Head(left)
             found == MatchingRows(right, r.user_id)
             ms == IF found = <<>> THEN NoMatch ELSE found
         IN  [i \in DOMAIN ms |-> JoinUserRow(r, ms[i])]
             \o MergeUser(Tail(left), right)

\* df_merged[["client_id", "name", "name_user", "month", "message_count"]]
SelectSummaryColumns(rows) ==
    [i \in DOMAIN rows |->
        [client_id |-> rows[i].client_id, name |-> rows[i].name,
         name_user |-> rows[i].name_user, month |-> rows[i].month,
         message_count |-> rows[i].message_count]]

Merged(agg, clients, users) ==
    SelectSummaryColumns(MergeUser(MergeClient(agg, clients), users))

\* pd.to_datetime raises on a value it cannot parse
TransformRaises(msgs) == \E i \in DOMAIN msgs : ~IsParseable(msgs[i].created_at)


-----------------------------------------------------------------------------
(* load_data: frames *)

\* df.assign(month=x["month"].astype(str),
\*           message_count=x["message_count"].astype(int))
PrepareForLoading(rows) ==
    [i \in DOMAIN rows |->
        [client_id |-> rows[i].client_id, name |-> rows[i].name,
         name_user |-> rows[i].name_user, month |-> PeriodStr(rows[i].month),
         message_count |-> rows[i].message_count]]

\* .rename(columns={...})[["Nama Perusahaan", "Nama Divisi", "Periode",
\*                         "Jumlah Pesan Terkirim"]]
RenameForExport(r) ==
    [c \in {"Nama Perusahaan", "Nama Divisi", "Periode", "Jumlah Pesan Terkirim"} |->
        CASE c = "Nama Perusahaan" -> r.name
          [] c = "Nama Divisi" -> r.name_user
          [] c = "Periode" -> r.month
          [] OTHER -> r.message_count]

\* df[df["month"] == previous_month].rename(...)[[...]]
FinalResult(rows, target) ==
    LET kept == SelectSeq(rows, LAMBDA r : r.month = target)
    IN  [i \in DOMAIN kept |-> RenameForExport(kept[i])]

RECURSIVE SortStrs(_)
SortStrs(S) ==
    IF S = {} THEN <<>>
    ELSE LET least == CHOOSE k \in S : \A o \in S \ {k} : StrLess(k, o)
         IN  <<least>> \o SortStrs(S \ {least})

\* the keys of final_result.groupby("Nama Perusahaan"): sorted, and a
\* missing name forms no group (dropna=True)
GroupNames(final) ==
    SortStrs({final[i]["Nama Perusahaan"] : i \in DOMAIN final} \ {NullStr})

\* the frame of one group
GroupOf(final, client_name) ==
    SelectSeq(final, LAMBDA r : r["Nama Perusahaan"] = client_name)

-----------------------------------------------------------------------------
(* load_data: paths *)

\* os.path.join(a, b)
PathJoin(a, b) ==
    IF b # <<>> /\ Head(b) = "/" THEN b
    ELSE IF a = <<>> \/ a[Len(a)] = "/" THEN a \o b
    ELSE a \o <<"/">> \o b

\* output_dir = os.path.join("output", previous_month)
OutputDir(target) == PathJoin(Str_output, target)

\* output_path = os.path.join(output_dir, f"{client_name}.csv")
OutputPath(target, client_name) ==
    PathJoin(OutputDir(target), client_name \o Str_csv)

\* the components of a path text
RECURSIVE Split(_)
Split(s) ==
    IF s = <<>> THEN <<<<>>>>
    ELSE LET rest == Split(Tail(s))
         IN  IF Head(s) = "/" THEN <<<<>>>> \o rest
             ELSE <<<<Head(s)>> \o Head(rest)>> \o Tail(rest)

IsAbsolute(s) == s # <<>> /\ Head(s) = "/"

DotDot == <<".", ".">>

\* one step of the file system's path walk
Step(cur, comp, abs) ==
    IF comp = <<>> \/ comp = <<".">> THEN cur
    ELSE IF comp = DotDot
         THEN IF cur # <<>> /\ cur[Len(cur)] # DotDot
              THEN SubSeq(cur, 1, Len(cur) - 1)
              ELSE IF abs THEN cur ELSE cur \o <<DotDot>>
         ELSE cur \o <<comp>>

RECURSIVE Walk(_, _, _)
Walk(cur, comps, abs) ==
    IF comps = <<>> THEN cur
    ELSE Walk(Step(cur, Head(comps), abs), Tail(comps), abs)

\* the file or directory a path text names: the working directory is the
\* relative path <<>>
Resolve(s) == [abs |-> IsAbsolute(s), parts |-> Walk(<<>>, Split(s), IsAbsolute(s))]

\* the root, the working directory and its ancestors exist
IsDir(p, ds) ==
    \/ p \in ds
    \/ \A i \in DOMAIN p.parts : p.parts[i] = DotDot

\* every directory the walk to the file passes exists (pandas checks the
\* parent, open() the rest)
RECURSIVE DirsExist(_, _, _, _)
DirsExist(cur, comps, abs, ds) ==
    \/ Len(comps) <= 1
    \/ LET nxt == Step(cur, Head(comps), abs)
       IN  /\ IsDir([abs |-> abs, parts |-> nxt], ds)
           /\ DirsExist(nxt, Tail(comps), abs, ds)

CanWrite(s, ds) ==
    /\ DirsExist(<<>>, Split(s), IsAbsolute(s), ds)
    /\ ~IsDir(Resolve(s), ds)

\* os.makedirs(output_dir, exist_ok=True): the directory and its parents
RECURSIVE Prefixes(_)
Prefixes(parts) ==
    IF parts = <<>> THEN {}
    ELSE {parts} \cup Prefixes(SubSeq(parts, 1, Len(parts) - 1))

MadeDirs(s) ==
    LET p == Resolve(s)
    IN  {[abs |-> p.abs, parts |-> q] : q \in Prefixes(p.parts)}

\* mode="a": the rows are added to the file
WriteFile_append(fs, path, rows) ==
    [q \in DOMAIN fs \cup {path} |->
        IF q = path THEN (IF q \in DOMAIN fs THEN fs[q] ELSE <<>>) \o rows ELSE fs[q]]

\* group.to_csv(output_path, index=False): the file holds the group's rows
\* under the header of the four export columns
WriteFile(fs, path, rows) ==
    [q \in DOMAIN fs \cup {path} |-> IF q = path THEN rows ELSE fs[q]]


-----------------------------------------------------------------------------
(* The process: main() *)

Sinks == [warehouse |-> warehouse, dirs |-> dirs, files |-> files]

memVars == <<df_messages, df_client, df_user, df_messages_per_month,
             transformed_data, df, previous_month, final_result, todo>>
srcVars == <<srcMessages, srcClient, srcUser>>
sinkVars == <<warehouse, dirs, files>>

\* an exception leaves main(): logged and raised again at every level
Raise(stage) ==
    /\ pc' = "failed"
    /\ failedStage' = stage
    /\ exitCode' = 1

\* extract_data returns the three tables
Extract ==
    /\ pc = "start"
    /\ pc' = "extracted"
    /\ df_messages' = srcMessages
    /\ df_client' = srcClient
    /\ df_user' = srcUser
    /\ UNCHANGED <<srcVars, now, runs, df_messages_per_month, transformed_data,
                   df, previous_month, final_result, todo, sinkVars, exitCode,
                   failedStage, log, sinks0, sinks1>>

\* extract_data: a read raises SQLAlchemyError
ExtractFail ==
    /\ pc = "start"
    /\ Raise("extract")
    /\ UNCHANGED <<srcVars, now, runs, memVars, sinkVars, log, sinks0, sinks1>>

\* transform_data returns the summary frame
Transform ==
    /\ pc = "extracted"
    /\ ~TransformRaises(df_messages)
    /\ pc' = "transformed"
    /\ df_messages_per_month' = MessagesPerMonth(df_messages)
    /\ transformed_data' = Merged(MessagesPerMonth(df_messages), df_client, df_user)
    /\ UNCHANGED <<srcVars, now, runs, df_messages, df_client, df_user, df,
                   previous_month, final_result, todo, sinkVars, exitCode,
                   failedStage, log, sinks0, sinks1>>

\* the error is logged and an empty frame returned
TransformFail_swallow ==
    /\ pc = "extracted"
    /\ TransformRaises(df_messages)
    /\ pc' = "transformed"
    /\ failedStage' = "transform"
    /\ UNCHANGED <<srcVars, now, runs, memVars, sinkVars, exitCode, log, sinks0,
                   sinks1>>

\* transform_data: pd.to_datetime raises
TransformFail ==
    /\ pc = "extracted"
    /\ TransformRaises(df_messages)
    /\ Raise("transform")
    /\ UNCHANGED <<srcVars, now, runs, memVars, sinkVars, log, sinks0, sinks1>>

\* if_exists="append": the rows are added to the table
ToSql_append ==
    /\ pc = "transformed"
    /\ pc' = "to_sql_done"
    /\ df' = PrepareForLoading(transformed_data)
    /\ warehouse' = warehouse \o PrepareForLoading(transformed_data)
    /\ log' = Append(log, [op |-> "to_sql", ok |-> TRUE, path |-> NoText])
    /\ UNCHANGED <<srcVars, now, runs, df_messages, df_client, df_user,
                   df_messages_per_month, transformed_data, previous_month,
                   final_result, todo, dirs, files, exitCode, failedStage,
                   sinks0, sinks1>>

\* load_data up to df.to_sql(..., if_exists="replace")
ToSql ==
    /\ pc = "transformed"
    /\ pc' = "to_sql_done"
    /\ df' = PrepareForLoading(transformed_data)
    /\ warehouse' = PrepareForLoading(transformed_data)
    /\ log' = Append(log, [op |-> "to_sql", ok |-> TRUE, path |-> NoText])
    /\ UNCHANGED <<srcVars, now, runs, df_messages, df_client, df_user,
                   df_messages_per_month, transformed_data, previous_month,
                   final_result, todo, dirs, files, exitCode, failedStage,
                   sinks0, sinks1>>

\* the error of df.to_sql is logged and load_data goes on
ToSqlFail_swallow ==
    /\ pc = "transformed"
    /\ pc' = "to_sql_done"
    /\ df' = PrepareForLoading(transformed_data)
    /\ log' = Append(log, [op |-> "to_sql", ok |-> FALSE, path |-> NoText])
    /\ UNCHANGED <<srcVars, now, runs, df_messages, df_client, df_user,
                   df_messages_per_month, transformed_data, previous_month,
                   final_result, todo, sinkVars, exitCode, failedStage, sinks0,
                   sinks1>>

\* load_data: df.to_sql raises; the write runs in one transaction
ToSqlFail ==
    /\ pc = "transformed"
    /\ Raise("load")
    /\ df' = PrepareForLoading(transformed_data)
    /\ log' = Append(log, [op |-> "to_sql", ok |-> FALSE, path |-> NoText])
    /\ UNCHANGED <<srcVars, now, runs, df_messages, df_client, df_user,
                   df_messages_per_month, transformed_data, previous_month,
                   final_result, todo, sinkVars, sinks0, sinks1>>

\* load_data from previous_month to os.makedirs(output_dir, exist_ok=True)
Makedirs ==
    /\ pc = "to_sql_done"
    /\ pc' = "csv_loop"
    /\ previous_month' = PreviousMonth(now)
    /\ final_result' = FinalResult(df, PreviousMonth(now))
    /\ todo' = GroupNames(FinalResult(df, PreviousMonth(now)))
    /\ dirs' = dirs \cup MadeDirs(OutputDir(PreviousMonth(now)))
    /\ log' = Append(log, [op |-> "makedirs", ok |-> TRUE,
                           path |-> OutputDir(PreviousMonth(now))])
    /\ UNCHANGED <<srcVars, now, runs, df_messages, df_client, df_user,
                   df_messages_per_month, transformed_data, df, warehouse,
                   files, exitCode, failedStage, sinks0, sinks1>>

\* load_data: os.makedirs raises, before or after it made the parent
MakedirsFail ==
    /\ pc = "to_sql_done"
    /\ Raise("load")
    /\ previous_month' = PreviousMonth(now)
    /\ final_result' = FinalResult(df, PreviousMonth(now))
    /\ \E made \in {{}, MadeDirs(Str_output)} : dirs' = dirs \cup made
    /\ log' = Append(log, [op |-> "makedirs", ok |-> FALSE,
                           path |-> OutputDir(PreviousMonth(now))])
    /\ UNCHANGED <<srcVars, now, runs, df_messages, df_client, df_user,
                   df_messages_per_month, transformed_data, df, todo,
                   warehouse, files, sinks0, sinks1>>

\* one pass of the loop over final_result.groupby("Nama Perusahaan")
WriteCsv ==
    /\ pc = "csv_loop"
    /\ todo # <<>>
    /\ LET output_path == OutputPath(previous_month, Head(todo))
       IN  /\ CanWrite(output_path, dirs)
           /\ files' = WriteFile(files, Resolve(output_path),
                                 GroupOf(final_result, Head(todo)))
           /\ log' = Append(log, [op |-> "to_csv", ok |-> TRUE,
                                  path |-> output_path])
    /\ todo' = Tail(todo)
    /\ UNCHANGED <<srcVars, now, pc, runs, df_messages, df_client, df_user,
                   df_messages_per_month, transformed_data, df, previous_month,
                   final_result, warehouse, dirs, exitCode, failedStage,
                   sinks0, sinks1>>

\* group.to_csv raises: the directory of the path is missing, or the write
\* fails before or after the file was opened for writing
WriteCsvFail ==
    /\ pc = "csv_loop"
    /\ todo # <<>>
    /\ Raise("load")
    /\ LET output_path == OutputPath(previous_month, Head(todo))
       IN  /\ \/ files' = files
              \/ /\ CanWrite(output_path, dirs)
                 /\ files' = WriteFile(files, Resolve(output_path), <<>>)
           /\ log' = Append(log, [op |-> "to_csv", ok |-> FALSE,
                                  path |-> output_path])
    /\ UNCHANGED <<srcVars, now, runs, df_messages, df_client, df_user,
                   df_messages_per_month, transformed_data, df, previous_month,
                   final_result, todo, warehouse, dirs, sinks0, sinks1>>

\* load_data returns, main() returns
Finish ==
    /\ pc = "csv_loop"
    /\ todo = <<>>
    /\ pc' = "done"
    /\ exitCode' = 0
    /\ sinks1' = IF runs = 1 THEN Sinks ELSE sinks1
    /\ UNCHANGED <<srcVars, now, runs, memVars, sinkVars, failedStage, log,
                   sinks0>>

\* the days of the month of d from d on
LaterSameMonth(d) ==
    {[year |-> d.year, month |-> d.month, day |-> dd] :
        dd \in d.day..DaysInMonth(d.year, d.month)}

\* main() is started again in the same month on the same source
Rerun ==
    /\ pc = "done"
    /\ runs < MaxRuns
    /\ runs' = runs + 1
    /\ pc' = "start"
    /\ now' \in LaterSameMonth(now)
    /\ df_messages' = NoFrame
    /\ df_client' = NoFrame
    /\ df_user' = NoFrame
    /\ df_messages_per_month' = NoFrame
    /\ transformed_data' = NoFrame
    /\ df' = NoFrame
    /\ previous_month' = NoText
    /\ final_result' = NoFrame
    /\ todo' = <<>>
    /\ exitCode' = 0 - 1
    /\ log' = <<>>
    /\ sinks0' = Sinks
    /\ UNCHANGED <<srcVars, sinkVars, failedStage, sinks1>>

Next ==
    \/ Extract
    \/ ExtractFail
    \/ Transform
    \/ TransformFail
    \/ ToSql
    \/ ToSqlFail
    \/ Makedirs
    \/ MakedirsFail
    \/ WriteCsv
    \/ WriteCsvFail
    \/ Finish
    \/ Rerun


-----------------------------------------------------------------------------
(* Initial states: the source tables, the clock and the sinks before the    *)
(* first run *)

Msg(c, u, d, s) == [client_id |-> c, user_id |-> u, created_at |-> d, status |-> s]
Date(y, m, d) == [year |-> y, month |-> m, day |-> d]
Ref(i, n) == [id |-> i, name |-> n]

Tables(kinds, n) == UNION {[1..k -> kinds] : k \in 0..n}

Jan31 == Date(2024, 1, 31)
Feb03 == Date(2024, 2, 3)
Feb20 == Date(2024, 2, 20)
Dec09 == Date(2023, 12, 9)
\* a created_at that pd.to_datetime rejects
Feb30 == Date(2024, 2, 30)
Mar31 == Date(2024, 3, 31)

Name_a == <<"a">>
Name_b == <<"b">>
Name_dot_a == <<".", "/", "a">>
Name_a_b == <<"a", "/", "b">>
Name_ops == <<"o", "p", "s">>

Statuses == {"delivered", "read", "sent"}

InitProcess ==
    /\ pc = "start"
    /\ runs = 1
    /\ df_messages = NoFrame
    /\ df_client = NoFrame
    /\ df_user = NoFrame
    /\ df_messages_per_month = NoFrame
    /\ transformed_data = NoFrame
    /\ df = NoFrame
    /\ previous_month = NoText
    /\ final_result = NoFrame
    /\ todo = <<>>
    /\ exitCode = 0 - 1
    /\ failedStage = "none"
    /\ log = <<>>
    /\ sinks0 = Sinks
    /\ sinks1 = Sinks

EmptySinks ==
    /\ warehouse = <<>>
    /\ dirs = {}
    /\ files = <<>>

\* messages of every status with present and missing ids
AggMsgKinds ==
    {Msg(k[1], k[2], d, s) :
        k \in {<<1, 10>>, <<2, 10>>, <<NullId, 10>>, <<1, NullId>>},
        d \in {Jan31, Feb03, Feb20}, s \in Statuses}
    \cup {Msg(1, 10, Feb30, "delivered")}

InitAgg ==
    /\ srcMessages \in Tables(AggMsgKinds, MaxMsgs)
    /\ srcClient = <<Ref(1, Name_a)>>
    /\ srcUser = <<Ref(10, Name_ops)>>
    /\ now = Mar31
    /\ EmptySinks
    /\ InitProcess

\* reference tables with matching, missing and repeated ids
JoinMsgs ==
    {<<Msg(1, 10, Feb03, "delivered"), Msg(2, 11, Feb03, "read"),
       Msg(1, 11, Feb20, "read"), Msg(2, 11, Jan31, "delivered")>>,
     <<Msg(1, 10, Feb03, "delivered"), Msg(2, 11, Feb30, "read")>>}

InitJoin ==
    /\ srcMessages \in JoinMsgs
    /\ srcClient \in Tables({Ref(i, n) : i \in {1, 2}, n \in {Name_a, Name_b}}, MaxRefs)
    /\ srcUser \in Tables({Ref(i, n) : i \in {10, 11}, n \in {Name_a, Name_ops}}, MaxRefs)
    /\ now = Mar31
    /\ EmptySinks
    /\ InitProcess

\* every run date of the years of the model
RunDates ==
    {dt \in [year : MinYear..MaxYear, month : 1..12, day : 1..31] :
        dt.day <= DaysInMonth(dt.year, dt.month)}

DateMsgs ==
    {<<Msg(1, 10, Dec09, "delivered"), Msg(1, 10, Jan31, "read"),
       Msg(2, 10, Feb03, "delivered"), Msg(1, 10, Feb20, "sent")>>,
     <<Msg(1, 10, Feb30, "read")>>}

InitDate ==
    /\ srcMessages \in DateMsgs
    /\ srcClient = <<Ref(1, Name_a), Ref(2, Name_b)>>
    /\ srcUser = <<Ref(10, Name_ops)>>
    /\ now \in RunDates
    /\ EmptySinks
    /\ InitProcess

\* sinks left by earlier runs, client names that are not plain file names,
\* a client id without a Client row
StaleRow ==
    [client_id |-> 1, name |-> Name_a, name_user |-> Name_ops,
     month |-> FormatYM(2023, 11), message_count |-> 7]

StaleDir == OutputDir(FormatYM(2024, 2))
StaleFile == Resolve(OutputPath(FormatYM(2024, 2), Name_a))

SinkMsgs ==
    {<<Msg(1, 10, Feb03, "delivered"), Msg(2, 10, Feb20, "read"),
       Msg(3, 10, Feb20, "read"), Msg(1, 10, Jan31, "delivered"),
       Msg(1, 10, Feb20, "sent")>>,
     <<Msg(2, 10, Feb03, "delivered"), Msg(2, 10, Dec09, "read")>>,
     <<Msg(1, 10, Feb30, "read")>>}

InitSinks ==
    /\ srcMessages \in SinkMsgs
    /\ srcClient \in {<<Ref(1, n1), Ref(2, n2)>> :
                        n1, n2 \in {Name_a, Name_b, Name_dot_a, Name_a_b}}
    /\ srcUser = <<Ref(10, Name_ops)>>
    /\ now \in {Date(2024, 3, 1), Date(2024, 3, 30), Date(2024, 1, 5)}
    /\ \/ EmptySinks
       \/ /\ warehouse = <<StaleRow>>
          /\ dirs = MadeDirs(StaleDir)
          /\ files = WriteFile(<<>>, StaleFile, <<RenameForExport(StaleRow)>>)
    /\ InitProcess

Init == InitSinks

Spec == Init /\ [][Next]_vars
SpecAgg == InitAgg /\ [][Next]_vars
SpecJoin == InitJoin /\ [][Next]_vars
SpecDate == InitDate /\ [][Next]_vars


-----------------------------------------------------------------------------
(* Properties of transform_data *)

\* transform_data has returned in the current run
Transformed ==
    \/ pc \in {"transformed", "to_sql_done", "csv_loop", "done"}
    \/ pc = "failed" /\ failedStage = "load"

QualifyingRows == {i \in DOMAIN df_messages : df_messages[i].status \in {"delivered", "read"}}

KeyOf(m) == <<m.client_id, m.user_id, m.created_at.year, m.created_at.month>>
RowKey(r) == <<r.client_id, r.user_id, r.month.year, r.month.month>>

RowsOfKey(k) == {j \in DOMAIN df_messages_per_month : RowKey(df_messages_per_month[j]) = k}

\* C1: transform_data yields exactly one aggregate row for every
\* (client_id, user_id, month) that has a delivered or read message, its
\* message_count is the number of those messages, and no other row exists.
C1_ExactAggregate ==
    Transformed =>
        /\ \A i \in QualifyingRows :
              LET k == KeyOf(df_messages[i])
              IN  /\ Cardinality(RowsOfKey(k)) = 1
                  /\ \A j \in RowsOfKey(k) :
                        df_messages_per_month[j].message_count =
                            Cardinality({h \in QualifyingRows : KeyOf(df_messages[h]) = k})
        /\ \A j \in DOMAIN df_messages_per_month :
              \E i \in QualifyingRows :
                  KeyOf(df_messages[i]) = RowKey(df_messages_per_month[j])

\* C4: a delivered or read message without client_id or user_id is counted
\* in an aggregate row of its key whenever transform_data returns.
C4_NullKeyCounted ==
    Transformed =>
        \A i \in QualifyingRows :
            (df_messages[i].client_id = NullId \/ df_messages[i].user_id = NullId)
                => \E j \in DOMAIN df_messages_per_month :
                      /\ RowKey(df_messages_per_month[j]) = KeyOf(df_messages[i])
                      /\ df_messages_per_month[j].message_count >= 1

UniqueIds(t) == \A i, j \in DOMAIN t : t[i].id = t[j].id => i = j

SameCounts ==
    /\ Len(transformed_data) = Len(df_messages_per_month)
    /\ \A i \in DOMAIN transformed_data :
          /\ transformed_data[i].client_id = df_messages_per_month[i].client_id
          /\ transformed_data[i].month = df_messages_per_month[i].month
          /\ transformed_data[i].message_count = df_messages_per_month[i].message_count

\* C2 as stated: whatever ids Client and User hold, the summary frame has
\* as many rows as the aggregate frame and keeps client_id, month and
\* message_count of each of them.
C2_JoinKeepsRows == Transformed => SameCounts

\* C2 amended: when no id occurs twice in Client and none twice in User, the
\* summary frame has as many rows as the aggregate frame and keeps
\* client_id, month and message_count of each of them.
C2_JoinKeepsRowsUniqueIds ==
    (Transformed /\ UniqueIds(df_client) /\ UniqueIds(df_user)) => SameCounts

C2_Witness ==
    /\ Transformed
    /\ UniqueIds(df_client) /\ UniqueIds(df_user)
    /\ Len(df_messages_per_month) >= 3
    /\ \E i \in DOMAIN transformed_data : transformed_data[i].name = NullStr
    /\ \E i \in DOMAIN transformed_data : transformed_data[i].name # NullStr

NamesOf(t, key) ==
    IF \E i \in DOMAIN t : t[i].id = key
    THEN {t[i].name : i \in {j \in DOMAIN t : t[j].id = key}}
    ELSE {NullStr}

\* C10: in every summary row, name is the name of the Client row with the
\* row's client_id and name_user the name of the User row with the row's
\* user_id, each unset when no such row exists.
C10_NamesKept ==
    Transformed =>
        /\ \A i \in DOMAIN transformed_data :
              \E j \in DOMAIN df_messages_per_month :
                  /\ transformed_data[i].client_id = df_messages_per_month[j].client_id
                  /\ transformed_data[i].month = df_messages_per_month[j].month
                  /\ transformed_data[i].name
                        \in NamesOf(df_client, df_messages_per_month[j].client_id)
                  /\ transformed_data[i].name_user
                        \in NamesOf(df_user, df_messages_per_month[j].user_id)
        /\ (UniqueIds(df_client) /\ UniqueIds(df_user)) =>
              /\ Len(transformed_data) = Len(df_messages_per_month)
              /\ \A i \in DOMAIN transformed_data :
                    /\ NamesOf(df_client, df_messages_per_month[i].client_id)
                          = {transformed_data[i].name}
                    /\ NamesOf(df_user, df_messages_per_month[i].user_id)
                          = {transformed_data[i].name_user}

C10_Witness ==
    /\ Transformed
    /\ UniqueIds(df_client) /\ UniqueIds(df_user)
    /\ \E i, j \in DOMAIN transformed_data :
          /\ transformed_data[i].name # NullStr
          /\ transformed_data[i].name_user # NullStr
          /\ transformed_data[i].name # transformed_data[i].name_user
          /\ transformed_data[j].name = NullStr
          /\ transformed_data[j].name_user # NullStr


-----------------------------------------------------------------------------
(* Properties of load_data and main *)

\* load_data has computed the target month in the current run
Selected == previous_month # NoText

TwoDigits ==
    <<<<"0", "1">>, <<"0", "2">>, <<"0", "3">>, <<"0", "4">>, <<"0", "5">>,
      <<"0", "6">>, <<"0", "7">>, <<"0", "8">>, <<"0", "9">>, <<"1", "0">>,
      <<"1", "1">>, <<"1", "2">>>>

YearText(y) ==
    [i \in 1..4 |-> Alphabet[4 + ((y \div (10 ^ (4 - i))) % 10)]]

\* the month before the month of the run date, as text
MonthBefore(d) ==
    IF d.month = 1 THEN YearText(d.year - 1) \o <<"-">> \o TwoDigits[12]
    ELSE YearText(d.year) \o <<"-">> \o TwoDigits[d.month - 1]

\* C5: the target month is the calendar month before the month of the run
\* date, whatever the day, as seven characters YYYY-MM, and the export rows
\* are the rows of the prepared frame whose month text equals it.
C5_TargetMonth ==
    Selected =>
        /\ previous_month = MonthBefore(now)
        /\ Len(previous_month) = 7
        /\ Len(final_result) =
              Cardinality({i \in DOMAIN df : df[i].month = MonthBefore(now)})
        /\ \A j \in DOMAIN final_result : final_result[j]["Periode"] = MonthBefore(now)

C5_Witness ==
    /\ pc = "done"
    /\ now.month = 1
    /\ now.day = 31
    /\ Len(final_result) = 1
    /\ Len(df) = 3

\* the file of the target month's directory that is named after a client
NamedAfter(client_name) ==
    [abs |-> FALSE, parts |-> <<Str_output, previous_month, client_name \o Str_csv>>]

InTargetDir(f) ==
    /\ ~f.abs
    /\ Len(f.parts) = 3
    /\ f.parts[1] = Str_output
    /\ f.parts[2] = previous_month

RowsIn(f) == {files[f][i] : i \in DOMAIN files[f]}

\* C3: after load_data succeeded, every row of a file of the target month
\* is in the file named after its client, no client is in two files, and
\* every export row with a client name is in a file.
C3_PartitionCorrect ==
    pc = "done" =>
        /\ \A f \in DOMAIN files :
              InTargetDir(f) =>
                  \A r \in RowsIn(f) : f = NamedAfter(r["Nama Perusahaan"])
        /\ \A f, g \in DOMAIN files :
              (f # g /\ InTargetDir(f) /\ InTargetDir(g)) =>
                  {r["Nama Perusahaan"] : r \in RowsIn(f)}
                      \cap {r["Nama Perusahaan"] : r \in RowsIn(g)} = {}
        /\ \A i \in DOMAIN final_result :
              final_result[i]["Nama Perusahaan"] # NullStr =>
                  \E f \in DOMAIN files : final_result[i] \in RowsIn(f)

\* C6: when a second run on the same source in the same month has
\* finished, the warehouse table, the directories and the files are what
\* the first run left.
C6_Idempotent ==
    (pc = "done" /\ runs >= 2) => Sinks = sinks1

C6_Witness ==
    /\ pc = "done"
    /\ runs = 2
    /\ Len(warehouse) >= 3
    /\ Cardinality(DOMAIN files) >= 2
    /\ \E f \in DOMAIN files : Len(files[f]) >= 1

ExportOps == {"makedirs", "to_csv"}

\* C7: a run creates an export directory or file only after its warehouse
\* write succeeded; after a failed warehouse write it calls neither
\* makedirs nor to_csv and leaves directories and files as they were.
C7_WarehouseFirst ==
    /\ \A i \in DOMAIN log :
          log[i].op \in ExportOps =>
              \E j \in 1..(i - 1) : log[j].op = "to_sql" /\ log[j].ok
    /\ (\E j \in DOMAIN log : log[j].op = "to_sql" /\ ~log[j].ok) =>
          /\ \A i \in DOMAIN log : log[i].op \notin ExportOps
          /\ dirs = sinks0.dirs
          /\ files = sinks0.files
    /\ (dirs # sinks0.dirs \/ files # sinks0.files) =>
          \E j \in DOMAIN log : log[j].op = "to_sql" /\ log[j].ok

C7_Witness ==
    /\ pc = "failed"
    /\ Len(log) = 1
    /\ log[1].op = "to_sql"
    /\ ~log[1].ok
    /\ Len(transformed_data) >= 1

\* an error was logged in the current run
Errored ==
    \/ failedStage # "none"
    \/ \E i \in DOMAIN log : ~log[i].ok

\* C8: an error of any stage ends the run at once with a non-zero exit:
\* no step follows it, and after an extraction or transformation error the
\* warehouse table, the directories and the files are unchanged.
C8_FailFast ==
    /\ [](Errored => (pc = "failed" /\ exitCode = 1 /\ failedStage # "none"))
    /\ [](pc = "done" => exitCode = 0)
    /\ [](\A i \in DOMAIN log : ~log[i].ok => i = Len(log))
    /\ [](failedStage \in {"extract", "transform"} => (Sinks = sinks0 /\ log = <<>>))
    /\ [][pc # "failed"]_vars

C8_Witness ==
    /\ pc = "failed"
    /\ failedStage = "transform"
    /\ warehouse # <<>>
    /\ DOMAIN files # {}

\* C9: after a successful run the warehouse table holds the summary rows
\* of all months and nothing else; a row whose client id is not in Client
\* is there with an unset name.
C9_WarehouseFull ==
    pc = "done" =>
        /\ Len(warehouse) = Len(transformed_data)
        /\ \A i \in DOMAIN transformed_data :
              /\ warehouse[i].client_id = transformed_data[i].client_id
              /\ warehouse[i].name = transformed_data[i].name
              /\ warehouse[i].name_user = transformed_data[i].name_user
              /\ warehouse[i].message_count = transformed_data[i].message_count
              /\ warehouse[i].month =
                    YearText(transformed_data[i].month.year) \o <<"-">>
                        \o TwoDigits[transformed_data[i].month.month]
        /\ \A j \in DOMAIN df_messages_per_month :
              \E i \in DOMAIN warehouse :
                  /\ warehouse[i].client_id = df_messages_per_month[j].client_id
                  /\ warehouse[i].message_count = df_messages_per_month[j].message_count
                  /\ warehouse[i].month =
                        YearText(df_messages_per_month[j].month.year) \o <<"-">>
                            \o TwoDigits[df_messages_per_month[j].month.month]
                  /\ (\A c \in DOMAIN df_client :
                          df_client[c].id # df_messages_per_month[j].client_id)
                        => warehouse[i].name = NullStr

C9_Witness ==
    /\ pc = "done"
    /\ runs = 1
    /\ sinks0.warehouse = <<StaleRow>>
    /\ \E i \in DOMAIN warehouse : warehouse[i].name = NullStr
    /\ \E i, j \in DOMAIN warehouse :
          /\ warehouse[i].month = previous_month
          /\ warehouse[j].month # previous_month


====
